---- MODULE Spec2Model ----
(***************************************************************************)
(* KindnessConnect backend: the request handlers of app/routers over the   *)
(* Firestore collections users, donation_requests, donations, sponsors,    *)
(* verification_requests and chats.                                        *)
(*                                                                         *)
(* A collection is a function from document ids to documents; a document   *)
(* is a record of the fields the handlers read, branch on or write.        *)
(* Fields that are only stored and echoed (email, story, bank fields,      *)
(* image urls, created_at) are left out of the documents.  Amounts are     *)
(* integers.  uuid4 ids are the next unused number of the collection.      *)
(* Every handler is one action; `last` holds the call and its response.    *)
(* Where the interleaving of concurrent calls matters a handler is also    *)
(* given step by step, one action per store operation; `calls` holds the   *)
(* calls in flight with their position and local variables.                *)
(***************************************************************************)
EXTENDS Integers, FiniteSets, Sequences, TLC

VARIABLES users, donation_requests, donations, sponsors,
          verification_requests, chats, last, calls

db == <<users, donation_requests, donations, sponsors,
        verification_requests, chats>>
vars == <<users, donation_requests, donations, sponsors,
          verification_requests, chats, last, calls>>

----------------------------------------------------------------------------
(* Bounds of the model *)

MaxRequests == 2
MaxDonations == 2
MaxSponsors == 2
MaxVerifications == 1
\* the documents the campaigns, sponsors and verification requests may hold
\* together where all three components run in one specification
MaxGateDocs == 2
\* the documents all collections but users may hold together where every
\* component runs in one specification
MaxLogDocs == 3
\* the calls that run concurrently where a handler is taken step by step
MaxCalls == 2

(* Inputs *)

TEST_DONOR_UID == "web_donor_test"
UIDs == {"u1", "u2"}
DonorUIDs == UIDs \cup {TEST_DONOR_UID}
Names == {"n1", "n2"}
Roles == {"donor", "admin"}
Titles == {"t1", "t2"}
Amounts == {-1, 2}
PositiveAmounts == {1, 2}
RequestIdInputs == 1..MaxRequests
SponsorIdInputs == 1..MaxSponsors
VerificationIdInputs == 1..MaxVerifications

(* HTTP status codes the handlers answer with *)
HTTP_200 == 200
HTTP_201 == 201
HTTP_204 == 204
HTTP_400 == 400
HTTP_403 == 403
HTTP_404 == 404
HTTP_500 == 500
HTTP_503 == 503

----------------------------------------------------------------------------
(* The document store *)

EmptyCollection == [k \in {} |-> TRUE]

\* document(id).get().exists
Exists(coll, id) == id \in DOMAIN coll

\* document(id).set(doc): create or overwrite
Set(coll, id, doc) ==
    [k \in (DOMAIN coll) \cup {id} |-> IF k = id THEN doc ELSE coll[k]]

\* a partial merge of update_data into a document
Merge(doc, update_data) ==
    [f \in (DOMAIN doc) \cup (DOMAIN update_data) |->
        IF f \in DOMAIN update_data THEN update_data[f] ELSE doc[f]]

\* document(id).update(update_data) on an existing document
Update(coll, id, update_data) ==
    [coll EXCEPT ![id] = Merge(@, update_data)]

\* document(id).delete()
Delete(coll, id) == [k \in (DOMAIN coll) \ {id} |-> coll[k]]

\* faulty variant: the same id for every document
NewId_reused(coll) == 1

\* str(uuid.uuid4()): an id no document of the collection has
NewId(coll) == Cardinality(DOMAIN coll) + 1

\* a handler's call and its response; writes counts the documents the call
\* set, updated or deleted, warned tells that it printed the warning of a
\* swallowed failure
Resp(op, args, status, body, writes) ==
    [op |-> op, args |-> args, status |-> status, body |-> body,
     writes |-> writes, warned |-> FALSE]

NoBody == "null"

----------------------------------------------------------------------------
(* Admin gating *)

\* faulty variant: any registered user passes the check
get_admin_any_user(admin_uid) == Exists(users, admin_uid)

get_admin(admin_uid) ==
    /\ Exists(users, admin_uid)
    /\ users[admin_uid].role = "admin"

----------------------------------------------------------------------------
(* users.py *)

\* faulty variant: the profile is written whether or not the document exists
register_user_profile_overwrites(user) ==
    LET user_data == [uid |-> user.uid, full_name |-> user.full_name,
                      role |-> user.role, is_active |-> TRUE,
                      is_verified |-> FALSE]
    IN  /\ users' = Set(users, user.uid, user_data)
        /\ last' = Resp("register_user_profile", user, HTTP_201, user_data, 1)
        /\ UNCHANGED <<donation_requests, donations, sponsors,
                       verification_requests, chats, calls>>

register_user_profile(user) ==
    LET user_data == [uid |-> user.uid, full_name |-> user.full_name,
                      role |-> user.role, is_active |-> TRUE,
                      is_verified |-> FALSE]
    IN  /\ IF Exists(users, user.uid)
           THEN /\ UNCHANGED users
                /\ last' = Resp("register_user_profile", user, HTTP_201,
                                users[user.uid],
                                0)
           ELSE /\ users' = Set(users, user.uid, user_data)
                /\ last' = Resp("register_user_profile", user, HTTP_201,
                                user_data,
                                1)
        /\ UNCHANGED <<donation_requests, donations, sponsors,
                       verification_requests, chats, calls>>

\* `except Exception as e: raise HTTPException(status_code=500, ...)` around a
\* handler body: HTTPException is an Exception, so whatever the body raises,
\* the 403 and 404 it raises itself included, leaves as a 500
except_Exception(raised) == HTTP_500

verify_user_account(uid, admin_uid) ==
    LET args == [uid |-> uid, admin_uid |-> admin_uid]
    IN  /\ IF ~get_admin(admin_uid)
           THEN /\ UNCHANGED users
                /\ last' = Resp("verify_user_account", args,
                                except_Exception(HTTP_403), NoBody,
                                0)
           ELSE IF ~Exists(users, uid)
           THEN /\ UNCHANGED users
                /\ last' = Resp("verify_user_account", args,
                                except_Exception(HTTP_404), NoBody,
                                0)
           ELSE /\ users' = Update(users, uid, [is_verified |-> TRUE])
                /\ last' = Resp("verify_user_account", args, HTTP_200,
                                users'[uid],
                                1)
        /\ UNCHANGED <<donation_requests, donations, sponsors,
                       verification_requests, chats, calls>>

delete_user_account(uid, admin_uid) ==
    LET args == [uid |-> uid, admin_uid |-> admin_uid]
    IN  /\ IF ~get_admin(admin_uid)
           THEN /\ UNCHANGED users
                /\ last' = Resp("delete_user_account", args,
                                except_Exception(HTTP_403), NoBody,
                                0)
           ELSE /\ users' = IF Exists(users, uid) THEN Delete(users, uid)
                                                  ELSE users
                /\ last' = Resp("delete_user_account", args, HTTP_204, NoBody,
                                IF Exists(users, uid) THEN 1 ELSE 0)
        /\ UNCHANGED <<donation_requests, donations, sponsors,
                       verification_requests, chats, calls>>

(* register_user_profile step by step: the read and the write of concurrent
   calls interleave *)

\* doc = user_ref.get() and the return of the document that exists
register_user_profile_get(user) ==
    /\ Len(calls) < MaxCalls
    /\ IF Exists(users, user.uid)
       THEN /\ calls' = Append(calls,
                          [op |-> "register_user_profile", pc |-> "returned",
                           args |-> user,
                           local |-> [returned |-> users[user.uid]]])
            /\ last' = Resp("register_user_profile", user, HTTP_201,
                            users[user.uid],
                                0)
       ELSE /\ calls' = Append(calls,
                          [op |-> "register_user_profile", pc |-> "set",
                           args |-> user, local |-> [v \in {} |-> TRUE]])
            /\ UNCHANGED last
    /\ UNCHANGED <<donation_requests, donations, sponsors,
                   verification_requests, chats, users>>

\* user_ref.set(user_data) and the return of user_data
register_user_profile_set(c) ==
    LET user == calls[c].args
        user_data == [uid |-> user.uid, full_name |-> user.full_name,
                      role |-> user.role, is_active |-> TRUE,
                      is_verified |-> FALSE]
    IN  /\ calls[c].op = "register_user_profile" /\ calls[c].pc = "set"
        /\ users' = Set(users, user.uid, user_data)
        /\ calls' = [calls EXCEPT ![c].pc = "returned",
                                  ![c].local = [returned |-> user_data]]
        /\ last' = Resp("register_user_profile", user, HTTP_201, user_data,
                                1)
        /\ UNCHANGED <<donation_requests, donations, sponsors,
                       verification_requests, chats>>

----------------------------------------------------------------------------
(* requests.py *)

\* user_data.get(field, default) of the user document, {} when it is absent
user_field(uid, field, default) ==
    IF Exists(users, uid) /\ field \in DOMAIN users[uid]
    THEN users[uid][field] ELSE default

\* faulty variant: the owner's name is added whatever the flag says
enrich_named(req) ==
    Merge(req,
          [requester_name |->
               user_field(req.requester_uid, "full_name", "Unknown"),
           requester_verified |->
               user_field(req.requester_uid, "is_verified", FALSE)])

\* the requester_name and requester_verified a read path adds to a campaign
enrich(req) ==
    Merge(req,
          [requester_name |->
               IF req.show_name_publicly
               THEN user_field(req.requester_uid, "full_name", "Unknown")
               ELSE "Anonymous Donor",
           requester_verified |->
               user_field(req.requester_uid, "is_verified", FALSE)])

create_request(requester_uid, title, show_name_publicly) ==
    LET request_id == NewId(donation_requests)
        new_request == [id |-> request_id, requester_uid |-> requester_uid,
                        title |-> title, collected_amount |-> 0,
                        status |-> "pending",
                        show_name_publicly |-> show_name_publicly]
    IN  /\ Cardinality(DOMAIN donation_requests) < MaxRequests
        /\ donation_requests' = Set(donation_requests, request_id, new_request)
        /\ last' = Resp("create_request", [requester_uid |-> requester_uid],
                        HTTP_200, enrich(new_request),
                                1)
        /\ UNCHANGED <<users, donations, sponsors, verification_requests,
                       chats, calls>>

\* the list of all campaigns in the order of the stream (by document id),
\* each with the requester fields added
get_all_requests ==
    /\ last' = Resp("get_all_requests", NoBody, HTTP_200,
                    [id \in DOMAIN donation_requests |->
                        enrich(donation_requests[id])],
                                0)
    /\ UNCHANGED <<db, calls>>

get_request_details(request_id) ==
    LET args == [request_id |-> request_id]
    IN  /\ IF ~Exists(donation_requests, request_id)
           THEN last' = Resp("get_request_details", args, HTTP_404, NoBody,
                                0)
           ELSE last' = Resp("get_request_details", args, HTTP_200,
                             enrich(donation_requests[request_id]),
                                0)
        /\ UNCHANGED <<db, calls>>

\* verify_request and reject_request: the same body with another status
set_request_status(op, new_status, request_id, uid) ==
    LET args == [request_id |-> request_id, uid |-> uid]
    IN  /\ IF ~get_admin(uid)
           THEN /\ UNCHANGED donation_requests
                /\ last' = Resp(op, args, HTTP_403, NoBody,
                                0)
           ELSE IF ~Exists(donation_requests, request_id)
           THEN /\ UNCHANGED donation_requests
                /\ last' = Resp(op, args, HTTP_404, NoBody,
                                0)
           ELSE /\ donation_requests' =
                      Update(donation_requests, request_id,
                             [status |-> new_status])
                /\ last' = Resp(op, args, HTTP_200, new_status,
                                1)
        /\ UNCHANGED <<users, donations, sponsors, verification_requests,
                       chats, calls>>

verify_request(request_id, uid) ==
    set_request_status("verify_request", "verified", request_id, uid)

\* faulty variant: rejecting puts the campaign back to pending
reject_request_resets(request_id, uid) ==
    set_request_status("reject_request", "pending", request_id, uid)

reject_request(request_id, uid) ==
    set_request_status("reject_request", "rejected", request_id, uid)

\* lexicographic order of the uid strings, as sorted() compares them
UidOrder == <<"u1", "u2", "web_donor_test">>
UidRank(u) == CHOOSE i \in 1..Len(UidOrder) : UidOrder[i] = u

\* sorted([a, b])
sorted_pair(a, b) == IF UidRank(a) <= UidRank(b) THEN <<a, b>> ELSE <<b, a>>

\* faulty variant: the id leaves the campaign out
chat_id_without_request(request_id, participants) ==
    participants[1] \o "_" \o participants[2]

\* f"{request_id}_{participants[0]}_{participants[1]}"
chat_id_of(request_id, participants) ==
    ToString(request_id) \o "_" \o participants[1] \o "_" \o participants[2]

initiate_chat(request_id, donor_uid) ==
    LET args == [request_id |-> request_id, donor_uid |-> donor_uid]
    IN  /\ IF ~Exists(donation_requests, request_id)
           THEN /\ UNCHANGED chats
                /\ last' = Resp("initiate_chat", args,
                                except_Exception(HTTP_404), NoBody,
                                0)
           ELSE LET requester_uid ==
                        donation_requests[request_id].requester_uid
                    participants == sorted_pair(requester_uid, donor_uid)
                    chat_id == chat_id_of(request_id, participants)
                IN  /\ chats' =
                          IF ~Exists(chats, chat_id)
                          THEN Set(chats, chat_id,
                                   [id |-> chat_id, request_id |-> request_id,
                                    requester_uid |-> requester_uid,
                                    donor_uid |-> donor_uid,
                                    participants |-> participants])
                          ELSE chats
                    /\ last' = Resp("initiate_chat", args, HTTP_200,
                                    [chat_id |-> chat_id,
                                     requester_uid |-> requester_uid],
                                IF Exists(chats, chat_id) THEN 0 ELSE 1)
        /\ UNCHANGED <<users, donation_requests, donations, sponsors,
                       verification_requests, calls>>

(* Story generation.  A text is a sequence of tokens: "fence" a markdown
   fence (three backticks), "\n" a line break, " " other whitespace, "#" and "*" markdown
   marks, "here is the story:", "the story:" and "story:" three of the
   introductory phrases in the order of intro_phrases (in any letter case),
   "w" any other text.  The prompt built from the title, the category, the
   goal and the draft goes to the providers and decides nothing else. *)

Whitespace == {" ", "\n"}

RECURSIVE lstrip(_, _)
lstrip(text, chars) ==
    IF text # <<>> /\ Head(text) \in chars
    THEN lstrip(Tail(text), chars) ELSE text

RECURSIVE rstrip(_, _)
rstrip(text, chars) ==
    IF text # <<>> /\ text[Len(text)] \in chars
    THEN rstrip(SubSeq(text, 1, Len(text) - 1), chars) ELSE text

\* str.strip()
strip(text) == rstrip(lstrip(text, Whitespace), Whitespace)

\* str.split('\n')
RECURSIVE split(_)
split(text) ==
    IF \E i \in 1..Len(text) : text[i] = "\n"
    THEN LET i == CHOOSE k \in 1..Len(text) :
                    /\ text[k] = "\n"
                    /\ \A j \in 1..(k - 1) : text[j] # "\n"
         IN  <<SubSeq(text, 1, i - 1)>> \o split(SubSeq(text, i + 1, Len(text)))
    ELSE <<text>>

\* '\n'.join(lines)
RECURSIVE join(_)
join(lines) ==
    IF lines = <<>> THEN <<>>
    ELSE IF Len(lines) = 1 THEN lines[1]
    ELSE lines[1] \o <<"\n">> \o join(Tail(lines))

intro_phrases == <<"here is the story:", "the story:", "story:">>

\* for phrase in intro_phrases: drop the phrase the text starts with
RECURSIVE remove_intro(_, _)
remove_intro(final_story, i) ==
    IF i > Len(intro_phrases) THEN final_story
    ELSE remove_intro(
           IF final_story # <<>> /\ Head(final_story) = intro_phrases[i]
           THEN lstrip(Tail(final_story), Whitespace) ELSE final_story,
           i + 1)

\* while final_story.startswith('#') or final_story.startswith('*')
RECURSIVE remove_markdown(_)
remove_markdown(final_story) ==
    IF final_story # <<>> /\ Head(final_story) \in {"#", "*"}
    THEN remove_markdown(strip(lstrip(final_story, {"#", "*", " "})))
    ELSE final_story

clean_story_output(raw_story) ==
    LET stripped == strip(raw_story)
        lines == split(stripped)
        unfenced ==
            IF /\ stripped # <<>>
               /\ Head(stripped) = "fence" /\ stripped[Len(stripped)] = "fence"
               /\ Len(lines) > 2
            THEN strip(join(SubSeq(lines, 2, Len(lines) - 1)))
            ELSE stripped
        final_story == remove_markdown(remove_intro(unfenced, 1))
    IN  IF final_story # <<>> THEN final_story ELSE stripped

\* the raw texts a provider answers with
Stories ==
    {<<"w">>,
     <<" ", "here is the story:", " ", "w", "\n">>,
     <<"fence", "\n", "story:", "#", " ", "w", "\n", "w", "\n", "fence">>,
     <<"story:", "here is the story:", "w", "*">>,
     <<"#", "*", " ">>}

\* what a provider call ends with: the exception it raises ("none" when it
\* returns) and the text of its response
Outcome(raised, text) == [raised |-> raised, text |-> text]

\* the primary call and `response.text.strip()`: GeminiAPIError for what the
\* provider reports (quota, auth, server error), ConnectError for a failure
\* of the transport, AttributeError for a response that has no text
PrimaryOutcomes ==
    {Outcome("none", r) : r \in Stories}
      \cup {Outcome(e, <<>>) :
              e \in {"GeminiAPIError", "ConnectError", "AttributeError"}}

SecondaryOutcomes ==
    {Outcome("none", r) : r \in Stories} \cup {Outcome("APIError", <<>>)}

\* `except (GeminiAPIError, ValueError) as e:` the exceptions the clause
\* around the primary attempt catches
primary_except == {"GeminiAPIError", "ValueError"}

\* what the primary try block raises, "none" when it returns
primary_raised(GEMINI_API_KEY, primary) ==
    IF ~GEMINI_API_KEY THEN "ValueError" ELSE primary.raised

\* `except Exception as e:` around the secondary attempt catches all
secondary_raised(HF_TOKEN, secondary) ==
    IF ~HF_TOKEN THEN "ValueError" ELSE secondary.raised

\* GEMINI_API_KEY, HF_TOKEN: whether the environment holds the key; primary,
\* secondary: what the provider's call ends with when it is made.  The
\* response tells which attempts were entered.
generate_story_text(GEMINI_API_KEY, HF_TOKEN, primary, secondary) ==
    LET args == [GEMINI_API_KEY |-> GEMINI_API_KEY, HF_TOKEN |-> HF_TOKEN,
                 primary |-> primary, secondary |-> secondary]
        raised1 == primary_raised(GEMINI_API_KEY, primary)
        raised2 == secondary_raised(HF_TOKEN, secondary)
        answer(status, body, attempted) ==
            last' = Merge(Resp("generate_story_text", args, status, body,
                                0),
                          [attempted |-> attempted])
    IN  /\ IF raised1 = "none"
           THEN answer(HTTP_200,
                       [story |-> clean_story_output(primary.text)],
                       {"primary"})
           ELSE IF raised1 \notin primary_except
           THEN \* no except clause catches it: the handler ends with it
                answer(HTTP_500, NoBody, {"primary"})
           ELSE IF raised2 = "none"
           THEN answer(HTTP_200,
                       [story |-> clean_story_output(secondary.text)],
                       {"primary", "secondary"})
           ELSE answer(HTTP_503, NoBody, {"primary", "secondary"})
        /\ UNCHANGED <<db, calls>>

----------------------------------------------------------------------------
(* donations.py *)

\* faulty variant: the update writes the amount instead of adding it
Increment_overwrites(coll, id, field, amount) ==
    [coll EXCEPT ![id][field] = amount]

\* update({field: firestore.Increment(amount)}) on an existing document
Increment(coll, id, field, amount) ==
    [coll EXCEPT ![id][field] = @ + amount]

\* faulty variant: the snapshot is the default title, not the campaign's
get_title_default(request_data) == "Unknown Campaign Title - Data Error"

\* request_data.get('title', 'Unknown Campaign Title - Data Error')
get_title(request_data) ==
    IF "title" \in DOMAIN request_data
    THEN request_data.title ELSE "Unknown Campaign Title - Data Error"

\* increment_fails: the store fails the update that follows the insert
create_donation(donation, increment_fails) ==
    IF ~Exists(donation_requests, donation.request_id)
    THEN /\ last' = Resp("create_donation", donation,
                         except_Exception(HTTP_404), NoBody,
                                0)
         /\ UNCHANGED <<db, calls>>
    ELSE LET request_data == donation_requests[donation.request_id]
             request_title == get_title(request_data)
             donation_id == NewId(donations)
             new_donation ==
                 [id |-> donation_id, request_id |-> donation.request_id,
                  donor_uid |-> donation.donor_uid,
                  amount |-> donation.amount,
                  payment_method |-> donation.payment_method,
                  request_title |-> request_title]
         IN  /\ Cardinality(DOMAIN donations) < MaxDonations
             /\ donations' = Set(donations, donation_id, new_donation)
             /\ IF increment_fails
                THEN /\ UNCHANGED donation_requests
                     /\ last' = Resp("create_donation", donation,
                                     except_Exception(HTTP_500), NoBody,
                                1)
                ELSE /\ donation_requests' =
                           Increment(donation_requests, donation.request_id,
                                     "collected_amount", donation.amount)
                     /\ last' = Resp("create_donation", donation, HTTP_200,
                                     new_donation,
                                2)
             /\ UNCHANGED <<users, sponsors, verification_requests, chats,
                            calls>>

(* create_donation step by step: the calls in flight interleave between the
   store operations *)

\* a call in flight: its handler, the store operation it runs next, its
\* arguments and its local variables
Call(op, pc, args, local) ==
    [op |-> op, pc |-> pc, args |-> args, local |-> local]

NoLocals == [v \in {} |-> TRUE]

\* request_doc = request_ref.get(), the exists check and the title
create_donation_get(donation) ==
    /\ Len(calls) < MaxCalls
    /\ IF ~Exists(donation_requests, donation.request_id)
       THEN /\ calls' = Append(calls, Call("create_donation", "raised",
                                           donation, NoLocals))
            /\ last' = Resp("create_donation", donation,
                            except_Exception(HTTP_404), NoBody,
                                0)
       ELSE /\ calls' = Append(calls,
                          Call("create_donation", "set", donation,
                               [request_data |->
                                    donation_requests[donation.request_id]]))
            /\ UNCHANGED last
    /\ UNCHANGED db

\* faulty variant: the campaign is incremented where the donation should be
\* set, so the increment comes first
create_donation_set_increments(c) ==
    /\ calls[c].op = "create_donation" /\ calls[c].pc = "set"
    /\ donation_requests' =
           Increment(donation_requests, calls[c].args.request_id,
                     "collected_amount", calls[c].args.amount)
    /\ calls' = [calls EXCEPT ![c].pc = "raised"]
    /\ UNCHANGED <<users, donations, sponsors, verification_requests,
                   chats, last>>

\* db.collection("donations").document(donation_id).set(new_donation)
create_donation_set(c) ==
    LET donation == calls[c].args
        donation_id == NewId(donations)
        new_donation ==
            [id |-> donation_id, request_id |-> donation.request_id,
             donor_uid |-> donation.donor_uid,
             amount |-> donation.amount,
             payment_method |-> donation.payment_method,
             request_title |-> get_title(calls[c].local.request_data)]
    IN  /\ calls[c].op = "create_donation" /\ calls[c].pc = "set"
        /\ donations' = Set(donations, donation_id, new_donation)
        /\ calls' = [calls EXCEPT
                       ![c].pc = "update",
                       ![c].local = Merge(@, [new_donation |-> new_donation])]
        /\ UNCHANGED <<users, donation_requests, sponsors,
                       verification_requests, chats, last>>

\* request_ref.update({"collected_amount": firestore.Increment(amount)}) and
\* the return
create_donation_update(c) ==
    LET donation == calls[c].args
    IN  /\ calls[c].op = "create_donation" /\ calls[c].pc = "update"
        /\ donation_requests' =
               Increment(donation_requests, donation.request_id,
                         "collected_amount", donation.amount)
        /\ calls' = [calls EXCEPT ![c].pc = "returned"]
        /\ last' = Resp("create_donation", donation, HTTP_200,
                        calls[c].local.new_donation,
                                2)
        /\ UNCHANGED <<users, donations, sponsors, verification_requests,
                       chats>>

\* the update raises (the store fails, or the process ends) after the
\* donation was set: `except Exception` answers 500, the donation stays
create_donation_update_fails(c) ==
    /\ calls[c].op = "create_donation" /\ calls[c].pc = "update"
    /\ calls' = [calls EXCEPT ![c].pc = "raised"]
    /\ last' = Resp("create_donation", calls[c].args,
                    except_Exception(HTTP_500), NoBody,
                                1)
    /\ UNCHANGED db

\* .where(field, "==", value): the ids of the matching documents
where(coll, field, value) == {id \in DOMAIN coll : coll[id][field] = value}

\* list(query.stream()): the matching documents in the order of their ids
RECURSIVE stream(_, _)
stream(coll, ids) ==
    IF ids = {} THEN <<>>
    ELSE LET first == CHOOSE x \in ids : \A y \in ids : x <= y
         IN  <<coll[first]>> \o stream(coll, ids \ {first})

\* the donations of uid followed by the donations of the placeholder donor
get_user_donations(uid) ==
    LET donations_real == stream(donations, where(donations, "donor_uid", uid))
        donations_test ==
            stream(donations, where(donations, "donor_uid", TEST_DONOR_UID))
        donations_list == donations_real \o donations_test
    IN  /\ last' = Resp("get_user_donations", [uid |-> uid], HTTP_200,
                        donations_list,
                                0)
        /\ UNCHANGED <<db, calls>>

----------------------------------------------------------------------------
(* sponsors.py *)

(* Theme colours from a logo: services/color_extraction.py and the handler
   generate_theme_from_logo.  A colour is a triple of channels 0..255. *)

HexDigits == <<"0", "1", "2", "3", "4", "5", "6", "7",
               "8", "9", "a", "b", "c", "d", "e", "f">>

\* '%02x' of a channel
hex02(n) == HexDigits[(n \div 16) + 1] \o HexDigits[(n % 16) + 1]

\* '#%02x%02x%02x' % tuple(rgb)
rgb_to_hex(rgb) == "#" \o hex02(rgb[1]) \o hex02(rgb[2]) \o hex02(rgb[3])

\* the default safety fallback colours
FallbackColors == <<"#1D4ED8", "#EFF6FF">>

RGBs == {<<29, 78, 216>>, <<239, 246, 255>>, <<0, 10, 171>>}

\* the colours asked of the quantization
num_colors == 5

\* what Pillow makes of the uploaded bytes: whether it opens them as an
\* image, and the flat palette r, g, b, r, g, b, ... of the quantized image
Images ==
    {[opens |-> FALSE, palette |-> <<>>],
     [opens |-> TRUE, palette |-> <<29, 78, 216>>],
     [opens |-> TRUE,
      palette |-> <<29, 78, 216, 0, 10, 171, 0, 10, 171, 0, 10, 171,
                    239, 246, 255>>]}

\* the first num_colors triples of the palette; an image that does not open
\* or a palette that is too short raises, and `except Exception` returns []
get_dominant_rgb_from_image(image) ==
    IF ~image.opens \/ Len(image.palette) < 3 * num_colors THEN <<>>
    ELSE [i \in 1..num_colors |->
            <<image.palette[3 * (i - 1) + 1], image.palette[3 * (i - 1) + 2],
              image.palette[3 * (i - 1) + 3]>>]

\* what the palette service answers: a request that raised
\* RequestException (transport, HTTP error status, a body that is no JSON),
\* or the list under 'result'
ColormindResponses ==
    {[raised |-> TRUE, result |-> <<>>]}
      \cup {[raised |-> FALSE, result |-> p] :
              p \in UNION {[1..n -> RGBs] : n \in {0, 4}}}
      \cup {[raised |-> FALSE, result |-> p] :
              p \in {q \in [1..5 -> RGBs] : q[2] = q[3] /\ q[3] = q[5]}}

\* faulty variant: four palette entries are taken as enough
get_palette_from_colors_four(dominant_rgbs, response) ==
    IF response.raised \/ Len(response.result) < 4
    THEN FallbackColors
    ELSE <<rgb_to_hex(response.result[4]), rgb_to_hex(response.result[1])>>

\* response: what the request to the palette service ends with
get_palette_from_colors(dominant_rgbs, response) ==
    IF response.raised THEN FallbackColors
    ELSE LET palette_rgb == response.result
         IN  IF Len(palette_rgb) < 5 THEN FallbackColors
             ELSE <<rgb_to_hex(palette_rgb[4]), rgb_to_hex(palette_rgb[1])>>

\* file_bytes: "" for an upload with no content, "bytes" otherwise;
\* image: what Pillow makes of the bytes
generate_theme_from_logo(file_bytes, image, response) ==
    LET args == [file_bytes |-> file_bytes, image |-> image,
                 response |-> response]
        dominant_rgbs == get_dominant_rgb_from_image(image)
        theme == get_palette_from_colors(dominant_rgbs, response)
    IN  /\ IF file_bytes = ""
           THEN last' = Resp("generate_theme_from_logo", args, HTTP_400,
                             NoBody,
                                0)
           ELSE IF dominant_rgbs = <<>>
           THEN last' = Resp("generate_theme_from_logo", args, HTTP_500,
                             NoBody,
                                0)
           ELSE last' = Resp("generate_theme_from_logo", args, HTTP_200,
                             [primary_color_hex |-> theme[1],
                              light_bg_hex |-> theme[2]],
                                0)
        /\ UNCHANGED <<db, calls>>

\* update.dict(exclude_none=True): the fields the admin's patch sets
EmptyUpdate == [f \in {} |-> TRUE]

\* faulty variant: no patch counts as empty
is_empty_never(update_data) == FALSE

\* `if not update_data:` the patch sets no field
is_empty(update_data) == DOMAIN update_data = {}

SponsorUpdates ==
    {EmptyUpdate}
      \cup {[status |-> s] : s \in {"approved", "rejected"}}
      \cup {[is_active_theme |-> b] : b \in BOOLEAN}
      \cup {[status |-> "approved", is_active_theme |-> TRUE]}

create_sponsor_request ==
    LET sponsor_id == NewId(sponsors)
        new_sponsor == [id |-> sponsor_id, status |-> "pending",
                        is_active_theme |-> FALSE]
    IN  /\ Cardinality(DOMAIN sponsors) < MaxSponsors
        /\ sponsors' = Set(sponsors, sponsor_id, new_sponsor)
        /\ last' = Resp("create_sponsor_request", NoBody, HTTP_200,
                        new_sponsor,
                                1)
        /\ UNCHANGED <<users, donation_requests, donations,
                       verification_requests, chats, calls>>

\* where("is_active_theme", "==", True): the ids of the matching documents
active_sponsors(coll) == {id \in DOMAIN coll : coll[id].is_active_theme}

\* .limit(1).stream(): at most one matching document, whichever the store
\* lists first (its ids are uuids, so any of them)
limit_1(ids) == IF ids = {} THEN {{}} ELSE {{id} : id \in ids}

\* faulty variant: the loop leaves the documents it visits as they are
deactivate_nothing(coll, active_docs) == coll

\* for doc in active_docs: doc.reference.update({"is_active_theme": False})
deactivate(coll, active_docs) ==
    [id \in DOMAIN coll |->
        IF id \in active_docs
        THEN Merge(coll[id], [is_active_theme |-> FALSE]) ELSE coll[id]]

\* faulty variant: the previously active sponsor is never cleared
deactivate_previous_skipped(coll, active_docs, deactivation_fails) == coll

\* faulty variant: the previous sponsor is cleared although the step failed
deactivate_previous_despite_failure(coll, active_docs, deactivation_fails) ==
    deactivate(coll, active_docs)

\* the try block of the handler: the sponsors after it; when the query or the
\* update raises, the except branch prints a warning and nothing was cleared
deactivate_previous(coll, active_docs, deactivation_fails) ==
    IF deactivation_fails THEN coll ELSE deactivate(coll, active_docs)

update_sponsor_status(sponsor_id, update_data, admin_uid, deactivation_fails) ==
    LET args == [sponsor_id |-> sponsor_id, update_data |-> update_data,
                 admin_uid |-> admin_uid]
        activates == /\ "is_active_theme" \in DOMAIN update_data
                     /\ update_data.is_active_theme = TRUE
    IN  /\ IF ~get_admin(admin_uid)
           THEN /\ UNCHANGED sponsors
                /\ last' = Resp("update_sponsor_status", args, HTTP_403, NoBody,
                                0)
           ELSE IF ~Exists(sponsors, sponsor_id)
           THEN /\ UNCHANGED sponsors
                /\ last' = Resp("update_sponsor_status", args, HTTP_404, NoBody,
                                0)
           ELSE IF is_empty(update_data)
           THEN /\ UNCHANGED sponsors
                /\ last' = Resp("update_sponsor_status", args, HTTP_200,
                                sponsors[sponsor_id],
                                0)
           ELSE \E active_docs \in limit_1(active_sponsors(sponsors)) :
                  LET cleared ==
                          IF activates
                          THEN deactivate_previous(sponsors, active_docs,
                                                   deactivation_fails)
                          ELSE sponsors
                  IN  /\ sponsors' = Update(cleared, sponsor_id, update_data)
                      /\ last' = Merge(
                                   Resp("update_sponsor_status", args,
                                        HTTP_200, sponsors'[sponsor_id],
                                        IF cleared = sponsors THEN 1 ELSE 2),
                                   [warned |-> activates
                                               /\ deactivation_fails])
        /\ UNCHANGED <<users, donation_requests, donations,
                       verification_requests, chats, calls>>

(* update_sponsor_status step by step: the calls in flight interleave between
   the store operations *)

\* faulty variant: the write that activates the target clears every other
\* sponsor with it
sponsor_ref_update_exclusive(coll, sponsor_id, update_data) ==
    [id \in DOMAIN coll |->
        IF id = sponsor_id THEN Merge(coll[id], update_data)
        ELSE IF "is_active_theme" \in DOMAIN update_data
                /\ update_data.is_active_theme = TRUE
        THEN Merge(coll[id], [is_active_theme |-> FALSE])
        ELSE coll[id]]

\* sponsor_ref.update(update_data)
sponsor_ref_update(coll, sponsor_id, update_data) ==
    Update(coll, sponsor_id, update_data)

\* the admin check, the exists check and the empty-patch return
update_sponsor_status_begin(sponsor_id, update_data, admin_uid) ==
    LET args == [sponsor_id |-> sponsor_id, update_data |-> update_data,
                 admin_uid |-> admin_uid]
        activates == /\ "is_active_theme" \in DOMAIN update_data
                     /\ update_data.is_active_theme = TRUE
        raised(status, body) ==
            /\ calls' = Append(calls, Call("update_sponsor_status", "raised",
                                           args, NoLocals))
            /\ last' = Resp("update_sponsor_status", args, status, body,
                                0)
    IN  /\ Len(calls) < MaxCalls
        /\ IF ~get_admin(admin_uid) THEN raised(HTTP_403, NoBody)
           ELSE IF ~Exists(sponsors, sponsor_id) THEN raised(HTTP_404, NoBody)
           ELSE IF is_empty(update_data)
           THEN /\ calls' = Append(calls,
                              Call("update_sponsor_status", "returned", args,
                                   NoLocals))
                /\ last' = Resp("update_sponsor_status", args, HTTP_200,
                                sponsors[sponsor_id],
                                0)
           ELSE /\ calls' = Append(calls,
                              Call("update_sponsor_status",
                                   IF activates THEN "query" ELSE "update",
                                   args, NoLocals))
                /\ UNCHANGED last
        /\ UNCHANGED db

\* active_docs = ...where("is_active_theme", "==", True).limit(1).stream()
update_sponsor_status_query(c) ==
    /\ calls[c].op = "update_sponsor_status" /\ calls[c].pc = "query"
    /\ \E active_docs \in limit_1(active_sponsors(sponsors)) :
          calls' = [calls EXCEPT
                      ![c].pc = IF active_docs = {} THEN "update"
                                ELSE "deactivate",
                      ![c].local = [active_docs |-> active_docs]]
    /\ UNCHANGED <<db, last>>

\* for doc in active_docs: doc.reference.update({"is_active_theme": False})
update_sponsor_status_deactivate(c) ==
    /\ calls[c].op = "update_sponsor_status" /\ calls[c].pc = "deactivate"
    /\ sponsors' = deactivate(sponsors, calls[c].local.active_docs)
    /\ calls' = [calls EXCEPT ![c].pc = "update"]
    /\ UNCHANGED <<users, donation_requests, donations,
                   verification_requests, chats, last>>

\* sponsor_ref.update(update_data) and the return of the updated document
update_sponsor_status_update(c) ==
    LET args == calls[c].args
    IN  /\ calls[c].op = "update_sponsor_status" /\ calls[c].pc = "update"
        /\ sponsors' = sponsor_ref_update(sponsors, args.sponsor_id,
                                          args.update_data)
        /\ calls' = [calls EXCEPT ![c].pc = "returned"]
        /\ last' = Resp("update_sponsor_status", args, HTTP_200,
                        sponsors'[args.sponsor_id],
                                1)
        /\ UNCHANGED <<users, donation_requests, donations,
                       verification_requests, chats>>

\* get_active_sponsor: the documents the handler may return, {} for None
get_active_sponsor == limit_1(active_sponsors(sponsors))

----------------------------------------------------------------------------
(* verification.py *)

VerificationUpdates ==
    {EmptyUpdate}
      \cup {[status |-> s] : s \in {"approved", "rejected"}}
      \cup {[is_verified |-> TRUE]}

create_verification_request(requester_uid) ==
    LET args == [requester_uid |-> requester_uid]
    IN  /\ IF ~Exists(users, requester_uid)
           THEN /\ UNCHANGED verification_requests
                /\ last' = Resp("create_verification_request", args, HTTP_404,
                                NoBody,
                                0)
           ELSE LET request_id == NewId(verification_requests)
                    new_request ==
                        [id |-> request_id, requester_uid |-> requester_uid,
                         user_name |-> user_field(requester_uid, "full_name",
                                                  "Unknown User"),
                         status |-> "pending"]
                IN  /\ Cardinality(DOMAIN verification_requests)
                           < MaxVerifications
                    /\ verification_requests' =
                           Set(verification_requests, request_id, new_request)
                    /\ last' = Resp("create_verification_request", args,
                                    HTTP_201, new_request,
                                1)
        /\ UNCHANGED <<users, donation_requests, donations, sponsors, chats,
                       calls>>

\* faulty variant: the approval does not reach the user document
set_user_verified_skipped(coll, user_uid) == coll

\* db.collection("users").document(user_uid).update({"is_verified": True})
set_user_verified(coll, user_uid) ==
    Update(coll, user_uid, [is_verified |-> TRUE])

update_verification_status(request_id, update_data, admin_uid) ==
    LET args == [request_id |-> request_id, update_data |-> update_data,
                 admin_uid |-> admin_uid]
        approves == /\ "status" \in DOMAIN update_data
                    /\ update_data.status = "approved"
    IN  /\ IF ~get_admin(admin_uid)
           THEN /\ UNCHANGED <<users, verification_requests>>
                /\ last' = Resp("update_verification_status", args, HTTP_403,
                                NoBody,
                                0)
           ELSE IF ~Exists(verification_requests, request_id)
           THEN /\ UNCHANGED <<users, verification_requests>>
                /\ last' = Resp("update_verification_status", args, HTTP_404,
                                NoBody,
                                0)
           ELSE IF is_empty(update_data)
           THEN /\ UNCHANGED <<users, verification_requests>>
                /\ last' = Resp("update_verification_status", args, HTTP_200,
                                verification_requests[request_id],
                                0)
           ELSE LET user_uid == verification_requests[request_id].requester_uid
                IN  IF approves /\ ~Exists(users, user_uid)
                    THEN \* update() of a missing document raises NotFound,
                         \* outside the handler's try block
                         /\ UNCHANGED <<users, verification_requests>>
                         /\ last' = Resp("update_verification_status", args,
                                         HTTP_500, NoBody,
                                0)
                    ELSE /\ users' = IF approves
                                     THEN set_user_verified(users, user_uid)
                                     ELSE users
                         /\ verification_requests' =
                                Update(verification_requests, request_id,
                                       update_data)
                         /\ last' = Resp("update_verification_status", args,
                                         HTTP_200,
                                         verification_requests'[request_id],
                                IF approves THEN 2 ELSE 1)
        /\ UNCHANGED <<donation_requests, donations, sponsors, chats, calls>>

(* update_verification_status step by step: the two writes of an approval,
   and a failure between them *)

\* get_admin, the exists check and the empty-patch return
update_verification_status_begin(request_id, update_data, admin_uid) ==
    LET args == [request_id |-> request_id, update_data |-> update_data,
                 admin_uid |-> admin_uid]
        approves == /\ "status" \in DOMAIN update_data
                    /\ update_data.status = "approved"
        raised(status) ==
            /\ calls' = Append(calls, Call("update_verification_status",
                                           "raised", args, NoLocals))
            /\ last' = Resp("update_verification_status", args, status,
                            NoBody,
                                0)
    IN  /\ Len(calls) < MaxCalls
        /\ IF ~get_admin(admin_uid) THEN raised(HTTP_403)
           ELSE IF ~Exists(verification_requests, request_id)
           THEN raised(HTTP_404)
           ELSE IF is_empty(update_data)
           THEN /\ calls' = Append(calls,
                              Call("update_verification_status", "returned",
                                   args, NoLocals))
                /\ last' = Resp("update_verification_status", args, HTTP_200,
                                verification_requests[request_id],
                                0)
           ELSE /\ calls' = Append(calls,
                              Call("update_verification_status",
                                   IF approves THEN "set_user"
                                   ELSE "update_request",
                                   args, NoLocals))
                /\ UNCHANGED last
        /\ UNCHANGED db

\* faulty variant: the request is approved where the user should be verified
update_verification_status_set_user_late(c) ==
    /\ calls[c].op = "update_verification_status"
    /\ calls[c].pc = "set_user"
    /\ verification_requests' =
           Update(verification_requests, calls[c].args.request_id,
                  calls[c].args.update_data)
    /\ calls' = [calls EXCEPT ![c].pc = "raised"]
    /\ UNCHANGED <<users, donation_requests, donations, sponsors, chats,
                   last>>

\* current_request = request_ref.get().to_dict() and the update of the
\* requester's user document, which raises when there is none
update_verification_status_set_user(c) ==
    LET args == calls[c].args
        user_uid == verification_requests[args.request_id].requester_uid
    IN  /\ calls[c].op = "update_verification_status"
        /\ calls[c].pc = "set_user"
        /\ IF ~Exists(users, user_uid)
           THEN /\ calls' = [calls EXCEPT ![c].pc = "raised"]
                /\ last' = Resp("update_verification_status", args, HTTP_500,
                                NoBody,
                                0)
                /\ UNCHANGED users
           ELSE /\ users' = set_user_verified(users, user_uid)
                /\ calls' = [calls EXCEPT ![c].pc = "update_request"]
                /\ UNCHANGED last
        /\ UNCHANGED <<donation_requests, donations, sponsors,
                       verification_requests, chats>>

\* request_ref.update(update_data) and the return
update_verification_status_update(c) ==
    LET args == calls[c].args
    IN  /\ calls[c].op = "update_verification_status"
        /\ calls[c].pc = "update_request"
        /\ verification_requests' =
               Update(verification_requests, args.request_id, args.update_data)
        /\ calls' = [calls EXCEPT ![c].pc = "returned"]
        /\ last' = Resp("update_verification_status", args, HTTP_200,
                        verification_requests'[args.request_id],
                                1)
        /\ UNCHANGED <<users, donation_requests, donations, sponsors, chats>>

\* request_ref.update raises (the store fails, or the process ends before
\* it): `except Exception` answers 500 and the request is as it was
update_verification_status_update_fails(c) ==
    /\ calls[c].op = "update_verification_status"
    /\ calls[c].pc = "update_request"
    /\ calls' = [calls EXCEPT ![c].pc = "raised"]
    /\ last' = Resp("update_verification_status", calls[c].args,
                    except_Exception(HTTP_500), NoBody,
                                0)
    /\ UNCHANGED db

----------------------------------------------------------------------------
Init ==
    /\ users = EmptyCollection
    /\ donation_requests = EmptyCollection
    /\ donations = EmptyCollection
    /\ sponsors = EmptyCollection
    /\ verification_requests = EmptyCollection
    /\ chats = EmptyCollection
    /\ last = Resp("none", NoBody, HTTP_200, NoBody,
                                0)
    /\ calls = <<>>

(* The whole service: every handler with every input *)

Next ==
    \/ \E uid \in UIDs, n \in Names, r \in Roles :
          register_user_profile([uid |-> uid, full_name |-> n, role |-> r])
    \/ \E uid \in UIDs, admin_uid \in UIDs : verify_user_account(uid, admin_uid)
    \/ \E uid \in UIDs, admin_uid \in UIDs : delete_user_account(uid, admin_uid)
    \/ \E uid \in UIDs, t \in Titles, pub \in BOOLEAN :
          create_request(uid, t, pub)
    \/ \E id \in RequestIdInputs, uid \in UIDs : verify_request(id, uid)
    \/ \E id \in RequestIdInputs, uid \in UIDs : reject_request(id, uid)
    \/ \E id \in RequestIdInputs, d \in DonorUIDs : initiate_chat(id, d)
    \/ \E id \in RequestIdInputs, d \in DonorUIDs, a \in Amounts,
          f \in BOOLEAN :
          create_donation([request_id |-> id, donor_uid |-> d, amount |-> a,
                           payment_method |-> "card"], f)
    \/ create_sponsor_request
    \/ \E id \in SponsorIdInputs, u \in SponsorUpdates, admin_uid \in UIDs,
          f \in BOOLEAN :
          update_sponsor_status(id, u, admin_uid, f)
    \/ \E uid \in UIDs : create_verification_request(uid)
    \/ \E id \in VerificationIdInputs, u \in VerificationUpdates,
          admin_uid \in UIDs :
          update_verification_status(id, u, admin_uid)
    \/ get_all_requests
    \/ \E id \in RequestIdInputs : get_request_details(id)
    \/ \E uid \in DonorUIDs : get_user_donations(uid)
    \/ \E GEMINI_API_KEY \in BOOLEAN, HF_TOKEN \in BOOLEAN,
          primary \in PrimaryOutcomes, secondary \in SecondaryOutcomes :
          generate_story_text(GEMINI_API_KEY, HF_TOKEN, primary, secondary)
    \/ \E file_bytes \in {"", "bytes"}, image \in Images,
          response \in ColormindResponses :
          generate_theme_from_logo(file_bytes, image, response)

Spec == Init /\ [][Next]_vars

(* The components, each with the handlers that read or write its collections.
   The handlers of one component never write another component's collections
   except users, so each is checked with the user handlers it depends on. *)

\* User Directory
NextUsers ==
    \/ \E uid \in UIDs, n \in Names, r \in Roles :
          register_user_profile([uid |-> uid, full_name |-> n, role |-> r])
    \/ \E uid \in UIDs, admin_uid \in UIDs : verify_user_account(uid, admin_uid)
    \/ \E uid \in UIDs, admin_uid \in UIDs : delete_user_account(uid, admin_uid)

SpecUsers == Init /\ [][NextUsers]_vars

\* Campaign Ledger: donations, with the store failing between the insert and
\* the increment
NextDonations ==
    \/ \E t \in Titles : create_request("u1", t, TRUE)
    \/ \E id \in RequestIdInputs, d \in {"u1", TEST_DONOR_UID}, a \in Amounts,
          f \in BOOLEAN :
          create_donation([request_id |-> id, donor_uid |-> d, amount |-> a,
                           payment_method |-> "card"], f)

SpecDonations == Init /\ [][NextDonations]_vars

\* Campaign Ledger: donations whose two store writes both succeed
NextLedger ==
    \/ \E uid \in UIDs, t \in Titles : create_request(uid, t, TRUE)
    \/ \E id \in RequestIdInputs, d \in {"u1", TEST_DONOR_UID}, a \in Amounts :
          create_donation([request_id |-> id, donor_uid |-> d, amount |-> a,
                           payment_method |-> "card"], FALSE)

SpecLedger == Init /\ [][NextLedger]_vars

\* Campaign Ledger: status transitions of campaigns that collect donations
NextStatus ==
    \/ \E uid \in UIDs, r \in Roles :
          register_user_profile([uid |-> uid, full_name |-> "n1", role |-> r])
    \/ create_request("u1", "t1", TRUE)
    \/ \E id \in RequestIdInputs, uid \in UIDs : verify_request(id, uid)
    \/ \E id \in RequestIdInputs, uid \in UIDs : reject_request(id, uid)
    \/ \E id \in RequestIdInputs :
          create_donation([request_id |-> id, donor_uid |-> "u1", amount |-> 2,
                           payment_method |-> "card"], FALSE)

SpecStatus == Init /\ [][NextStatus]_vars

\* Campaign Ledger: chat rooms
NextChats ==
    \/ \E uid \in UIDs, t \in Titles : create_request(uid, t, TRUE)
    \/ \E id \in RequestIdInputs, d \in DonorUIDs : initiate_chat(id, d)

SpecChats == Init /\ [][NextChats]_vars

\* Sponsor Theme Manager
NextSponsors ==
    \/ \E uid \in UIDs, r \in Roles :
          register_user_profile([uid |-> uid, full_name |-> "n1", role |-> r])
    \/ create_sponsor_request
    \/ \E id \in SponsorIdInputs, u \in SponsorUpdates, admin_uid \in UIDs,
          f \in BOOLEAN :
          update_sponsor_status(id, u, admin_uid, f)

SpecSponsors == Init /\ [][NextSponsors]_vars

\* Verification Workflow
NextVerification ==
    \/ \E uid \in UIDs, r \in Roles :
          register_user_profile([uid |-> uid, full_name |-> "n1", role |-> r])
    \/ \E uid \in UIDs, admin_uid \in UIDs : delete_user_account(uid, admin_uid)
    \/ \E uid \in UIDs : create_verification_request(uid)
    \/ \E id \in VerificationIdInputs, u \in VerificationUpdates,
          admin_uid \in UIDs :
          update_verification_status(id, u, admin_uid)

SpecVerification == Init /\ [][NextVerification]_vars

GateDocs ==
    Cardinality(DOMAIN donation_requests) + Cardinality(DOMAIN sponsors)
      + Cardinality(DOMAIN verification_requests)

\* Admin gating: every admin-gated handler that writes, over collections that
\* hold documents
NextGate ==
    \/ \E uid \in UIDs, r \in Roles :
          register_user_profile([uid |-> uid, full_name |-> "n1", role |-> r])
    \/ \E uid \in UIDs, admin_uid \in UIDs : verify_user_account(uid, admin_uid)
    \/ \E uid \in UIDs, admin_uid \in UIDs : delete_user_account(uid, admin_uid)
    \/ GateDocs < MaxGateDocs /\ create_request("u1", "t1", TRUE)
    \/ \E id \in RequestIdInputs, uid \in UIDs : verify_request(id, uid)
    \/ \E id \in RequestIdInputs, uid \in UIDs : reject_request(id, uid)
    \/ GateDocs < MaxGateDocs /\ create_sponsor_request
    \/ \E id \in SponsorIdInputs, admin_uid \in UIDs,
          u \in {EmptyUpdate, [is_active_theme |-> TRUE]} :
          update_sponsor_status(id, u, admin_uid, FALSE)
    \/ \E uid \in UIDs :
          GateDocs < MaxGateDocs /\ create_verification_request(uid)
    \/ \E id \in VerificationIdInputs, admin_uid \in UIDs,
          u \in {EmptyUpdate, [status |-> "approved"]} :
          update_verification_status(id, u, admin_uid)

SpecGate == Init /\ [][NextGate]_vars

\* Campaign Ledger: concurrent donations, interleaved between their store
\* operations
NextConcurrentDonations ==
    \/ create_request("u1", "t1", TRUE)
    \/ \E id \in RequestIdInputs, a \in Amounts :
          create_donation_get([request_id |-> id, donor_uid |-> "u1",
                               amount |-> a, payment_method |-> "card"])
    \/ \E c \in DOMAIN calls : create_donation_set(c)
    \/ \E c \in DOMAIN calls : create_donation_update(c)

SpecConcurrentDonations == Init /\ [][NextConcurrentDonations]_vars

\* Sponsor Theme Manager: concurrent updates by an admin, interleaved between
\* their store operations
NextConcurrentSponsors ==
    \/ register_user_profile([uid |-> "u1", full_name |-> "n1",
                              role |-> "admin"])
    \/ create_sponsor_request
    \/ \E id \in SponsorIdInputs,
          u \in {EmptyUpdate, [is_active_theme |-> TRUE],
                 [status |-> "approved"]} :
          update_sponsor_status_begin(id, u, "u1")
    \/ \E c \in DOMAIN calls : update_sponsor_status_query(c)
    \/ \E c \in DOMAIN calls : update_sponsor_status_deactivate(c)
    \/ \E c \in DOMAIN calls : update_sponsor_status_update(c)

SpecConcurrentSponsors == Init /\ [][NextConcurrentSponsors]_vars

\* Campaign Ledger: concurrent donations of positive amounts, each of which
\* may fail between its two writes
NextInterruptedDonations ==
    \/ create_request("u1", "t1", TRUE)
    \/ \E id \in RequestIdInputs, a \in PositiveAmounts :
          create_donation_get([request_id |-> id, donor_uid |-> "u1",
                               amount |-> a, payment_method |-> "card"])
    \/ \E c \in DOMAIN calls : create_donation_set(c)
    \/ \E c \in DOMAIN calls : create_donation_update(c)
    \/ \E c \in DOMAIN calls : create_donation_update_fails(c)

SpecInterruptedDonations == Init /\ [][NextInterruptedDonations]_vars

\* Verification Workflow: updates by an admin taken write by write, each of
\* which may fail before its last write
NextInterruptedVerification ==
    \/ register_user_profile([uid |-> "u1", full_name |-> "n1",
                              role |-> "donor"])
    \/ register_user_profile([uid |-> "u2", full_name |-> "n2",
                              role |-> "admin"])
    \/ create_verification_request("u1")
    \/ \E id \in VerificationIdInputs, u \in VerificationUpdates,
          admin_uid \in UIDs :
          update_verification_status_begin(id, u, admin_uid)
    \/ \E c \in DOMAIN calls : update_verification_status_set_user(c)
    \/ \E c \in DOMAIN calls : update_verification_status_update(c)
    \/ \E c \in DOMAIN calls : update_verification_status_update_fails(c)

SpecInterruptedVerification == Init /\ [][NextInterruptedVerification]_vars

\* Campaign Ledger: a donor's history, with donations of the placeholder donor
NextDonorHistory ==
    \/ create_request("u1", "t1", TRUE)
    \/ \E id \in RequestIdInputs, d \in {"u1", TEST_DONOR_UID} :
          create_donation([request_id |-> id, donor_uid |-> d, amount |-> 2,
                           payment_method |-> "card"], FALSE)
    \/ \E uid \in DonorUIDs : get_user_donations(uid)

SpecDonorHistory == Init /\ [][NextDonorHistory]_vars

\* User Directory: concurrent registrations, interleaved between the read and
\* the write
NextConcurrentRegister ==
    \/ \E uid \in UIDs, n \in Names, r \in {"donor", "ngo"} :
          register_user_profile_get([uid |-> uid, full_name |-> n,
                                     role |-> r])
    \/ \E c \in DOMAIN calls : register_user_profile_set(c)

SpecConcurrentRegister == Init /\ [][NextConcurrentRegister]_vars

\* Campaign Ledger: the three paths that return a campaign with its
\* requester's name, over owners who register under one name or another
NextReads ==
    \/ \E uid \in UIDs, n \in Names :
          register_user_profile([uid |-> uid, full_name |-> n,
                                 role |-> "donor"])
    \/ \E uid \in UIDs, pub \in BOOLEAN : create_request(uid, "t1", pub)
    \/ get_all_requests
    \/ \E id \in RequestIdInputs : get_request_details(id)

SpecReads == Init /\ [][NextReads]_vars

\* AI story generation
NextStory ==
    \E GEMINI_API_KEY \in BOOLEAN, HF_TOKEN \in BOOLEAN,
       primary \in PrimaryOutcomes, secondary \in SecondaryOutcomes :
       generate_story_text(GEMINI_API_KEY, HF_TOKEN, primary, secondary)

SpecStory == Init /\ [][NextStory]_vars

\* Colour palette of a sponsor's logo
NextTheme ==
    \E file_bytes \in {"", "bytes"}, image \in Images,
       response \in ColormindResponses :
       generate_theme_from_logo(file_bytes, image, response)

SpecTheme == Init /\ [][NextTheme]_vars

LogDocs ==
    GateDocs + Cardinality(DOMAIN donations) + Cardinality(DOMAIN chats)

\* Every handler that writes to the store, called by an admin who is also the
\* campaign owner and the donor, with the store failing or not between the
\* two writes of a donation
NextLog ==
    \/ \E n \in Names :
          register_user_profile([uid |-> "u1", full_name |-> n,
                                 role |-> "admin"])
    \/ verify_user_account("u1", "u1")
    \/ delete_user_account("u1", "u1")
    \/ LogDocs < MaxLogDocs /\ create_request("u1", "t1", TRUE)
    \/ \E id \in RequestIdInputs : verify_request(id, "u1")
    \/ \E id \in RequestIdInputs : reject_request(id, "u1")
    \/ \E id \in RequestIdInputs :
          LogDocs < MaxLogDocs /\ initiate_chat(id, "u1")
    \/ \E id \in RequestIdInputs, a \in Amounts, f \in BOOLEAN :
          /\ LogDocs < MaxLogDocs
          /\ create_donation([request_id |-> id, donor_uid |-> "u1",
                              amount |-> a, payment_method |-> "card"], f)
    \/ LogDocs < MaxLogDocs /\ create_sponsor_request
    \/ \E id \in SponsorIdInputs :
          update_sponsor_status(id, [is_active_theme |-> TRUE], "u1", FALSE)
    \/ LogDocs < MaxLogDocs /\ create_verification_request("u1")
    \/ \E id \in VerificationIdInputs, st \in {"approved", "rejected"} :
          update_verification_status(id, [status |-> st], "u1")

SpecLog == Init /\ [][NextLog]_vars

----------------------------------------------------------------------------
(* Claims *)

RECURSIVE SumAmounts(_)
SumAmounts(ids) ==
    IF ids = {} THEN 0
    ELSE LET d == CHOOSE x \in ids : TRUE
         IN  donations[d].amount + SumAmounts(ids \ {d})

DonationsOf(request_id) ==
    {d \in DOMAIN donations : donations[d].request_id = request_id}

IsAdminUser(coll, uid) == uid \in DOMAIN coll /\ coll[uid].role = "admin"

\* C1: when every create_donation call completes, each call adds its amount
\* to the collected_amount of its campaign and to no other, so after any
\* sequence of calls a campaign's collected_amount is its value at creation
\* (0) plus the sum of the amounts donated to it.
C1_CollectedIsSum ==
    /\ [](\A id \in DOMAIN donation_requests :
            donation_requests[id].collected_amount
                = SumAmounts(DonationsOf(id)))
    /\ [][(last'.op = "create_donation" /\ last'.status = HTTP_200) =>
            /\ DOMAIN donation_requests' = DOMAIN donation_requests
            /\ \A id \in DOMAIN donation_requests :
                 donation_requests'[id].collected_amount =
                    donation_requests[id].collected_amount
                      + (IF id = last'.args.request_id
                         THEN last'.args.amount ELSE 0)]_vars

C1_Witness ==
    /\ last.op = "create_donation" /\ last.status = HTTP_200
    /\ Cardinality(DonationsOf(last.args.request_id)) >= 2
    /\ donation_requests[last.args.request_id].collected_amount = 1
    /\ Cardinality(DOMAIN donation_requests) >= 2

ActiveCount(coll) ==
    Cardinality({id \in DOMAIN coll : coll[id].is_active_theme})

C3_RegisterIdempotent ==
    [][last'.op = "register_user_profile" =>
        LET uid == last'.args.uid
        IN  /\ last'.status = HTTP_201
            /\ IF uid \in DOMAIN users
               THEN users' = users /\ last'.body = users[uid]
               ELSE /\ DOMAIN users' = DOMAIN users \cup {uid}
                    /\ \A u \in DOMAIN users : users'[u] = users[u]
                    /\ users'[uid].full_name = last'.args.full_name
                    /\ users'[uid].role = last'.args.role
                    /\ ~users'[uid].is_verified /\ users'[uid].is_active
                    /\ last'.body = users'[uid]]_vars

C3_Witness ==
    /\ last.op = "register_user_profile" /\ last.writes = 0
    /\ last.args.uid \in DOMAIN users
    /\ users[last.args.uid].full_name # last.args.full_name
    /\ users[last.args.uid].role # last.args.role
    /\ last.body = users[last.args.uid]

IsVerificationUpdate(l, status) ==
    /\ l.op = "update_verification_status"
    /\ "status" \in DOMAIN l.args.update_data
    /\ l.args.update_data.status = status

\* C4 as claimed: an admin's update of an existing verification request with
\* status approved always ends with the requester's flag true; with status
\* rejected it leaves the users as they were.
C4_ApproveAlwaysVerifies ==
    [][\A id \in DOMAIN verification_requests :
         (/\ last'.op = "update_verification_status"
          /\ last'.args.request_id = id
          /\ IsAdminUser(users, last'.args.admin_uid)) =>
            LET requester == verification_requests[id].requester_uid
            IN  /\ IsVerificationUpdate(last', "approved") =>
                     /\ requester \in DOMAIN users'
                     /\ users'[requester].is_verified
                /\ IsVerificationUpdate(last', "rejected") =>
                     users' = users]_vars

\* C4 as amended: an admin's update of an existing verification request with
\* status approved ends with the requester's flag true, whatever the flag and
\* the request's status were, when the requester still has a user document;
\* when that document was deleted the update fails with a 500 and changes
\* neither the users nor the request. With status rejected the users are left
\* as they were.
C4_ApproveVerifiesExistingUser ==
    [][\A id \in DOMAIN verification_requests :
         (/\ last'.op = "update_verification_status"
          /\ last'.args.request_id = id
          /\ IsAdminUser(users, last'.args.admin_uid)) =>
            LET requester == verification_requests[id].requester_uid
            IN  /\ IsVerificationUpdate(last', "approved") =>
                     IF requester \in DOMAIN users
                     THEN /\ last'.status = HTTP_200
                          /\ users' = [users EXCEPT
                                         ![requester].is_verified = TRUE]
                          /\ verification_requests'[id].status = "approved"
                     ELSE /\ last'.status = HTTP_500
                          /\ UNCHANGED db
                /\ IsVerificationUpdate(last', "rejected") =>
                     /\ last'.status = HTTP_200
                     /\ users' = users
                     /\ verification_requests'[id].status = "rejected"]_vars

C4_Witness ==
    /\ IsVerificationUpdate(last, "approved") /\ last.status = HTTP_200
    /\ last.writes = 2
    /\ verification_requests[last.args.request_id].status = "approved"
    /\ users[verification_requests[last.args.request_id].requester_uid]
          .is_verified

RoomsOf(coll, request_id, donor_uid) ==
    {k \in DOMAIN coll : /\ coll[k].request_id = request_id
                         /\ coll[k].donor_uid = donor_uid}

\* C5: initiate_chat on an existing campaign succeeds and leaves exactly one
\* room for its (campaign, donor) pair, the one whose id it returns; when the
\* pair already has a room the call returns that room's id and leaves the
\* chats collection as it was, so a repeated call returns the same id and
\* neither adds a room nor rewrites the first.
C5_ChatIdempotent ==
    [][last'.op = "initiate_chat" =>
        LET c == last'.args.request_id
            d == last'.args.donor_uid
        IN  c \in DOMAIN donation_requests =>
              /\ last'.status = HTTP_200
              /\ RoomsOf(chats', c, d) = {last'.body.chat_id}
              /\ last'.body.requester_uid = donation_requests[c].requester_uid
              /\ IF RoomsOf(chats, c, d) # {}
                 THEN /\ chats' = chats
                      /\ RoomsOf(chats, c, d) = {last'.body.chat_id}
                 ELSE /\ DOMAIN chats' = DOMAIN chats \cup {last'.body.chat_id}
                      /\ \A k \in DOMAIN chats : chats'[k] = chats[k]]_vars

C5_Witness ==
    /\ last.op = "initiate_chat" /\ last.status = HTTP_200 /\ last.writes = 0
    /\ RoomsOf(chats, last.args.request_id, last.args.donor_uid)
          = {last.body.chat_id}
    /\ Cardinality(DOMAIN chats) >= 3

GatedOps ==
    {"verify_user_account", "delete_user_account", "verify_request",
     "reject_request", "update_sponsor_status", "update_verification_status"}

Actor(l) ==
    IF l.op \in {"verify_request", "reject_request"}
    THEN l.args.uid ELSE l.args.admin_uid

\* C6: an admin-gated handler that can write, called by an identifier that has
\* no user document or whose role is not admin, leaves all six collections
\* unchanged.
C6_GateBeforeMutation ==
    [][(last'.op \in GatedOps /\ ~IsAdminUser(users, Actor(last')))
          => UNCHANGED db]_vars

C6_Witness ==
    /\ last.op = "update_verification_status"
    /\ last.args.admin_uid \in DOMAIN users
    /\ ~IsAdminUser(users, last.args.admin_uid)
    /\ last.args.request_id \in DOMAIN verification_requests
    /\ last.status = HTTP_403 /\ last.writes = 0
    /\ DOMAIN sponsors # {}

\* C7: verify_user_account and delete_user_account, called by an identifier
\* that has no user document or whose role is not admin, answer 403
\* Forbidden.
C7_UsersForbidden ==
    [][(/\ last'.op \in {"verify_user_account", "delete_user_account"}
        /\ ~IsAdminUser(users, last'.args.admin_uid))
          => last'.status = HTTP_403]_vars

\* C8: create_donation for a request_id that has no campaign answers 404 Not
\* Found, adds no donation and changes no campaign.
C8_AbsentCampaignNotFound ==
    [][(/\ last'.op = "create_donation"
        /\ ~Exists(donation_requests, last'.args.request_id)) =>
            /\ last'.status = HTTP_404
            /\ UNCHANGED <<donations, donation_requests>>]_vars

\* C9: verify_request and reject_request answer 403 when the caller is no
\* admin (whether or not the campaign exists), else 404 when the campaign is
\* absent, creating none, else 200 with the campaign's status set and nothing
\* else of any campaign changed.
C9_SetStatusOutcome ==
    [][last'.op \in {"verify_request", "reject_request"} =>
        LET id == last'.args.request_id
            s == IF last'.op = "verify_request" THEN "verified" ELSE "rejected"
        IN  IF ~IsAdminUser(users, last'.args.uid)
            THEN last'.status = HTTP_403 /\ UNCHANGED db
            ELSE IF id \notin DOMAIN donation_requests
            THEN last'.status = HTTP_404 /\ UNCHANGED db
            ELSE /\ last'.status = HTTP_200
                 /\ DOMAIN donation_requests' = DOMAIN donation_requests
                 /\ donation_requests'[id] =
                       [donation_requests[id] EXCEPT !.status = s]
                 /\ \A other \in DOMAIN donation_requests \ {id} :
                       donation_requests'[other] = donation_requests[other]
                 /\ UNCHANGED <<users, donations, sponsors,
                                verification_requests, chats>>]_vars

C9_Witness ==
    /\ last.op = "reject_request" /\ last.status = HTTP_200
    /\ donation_requests[last.args.request_id].status = "rejected"
    /\ donation_requests[last.args.request_id].collected_amount # 0
    /\ \E other \in DOMAIN donation_requests :
         /\ other # last.args.request_id
         /\ donation_requests[other].status = "verified"

\* C10 as claimed: every change of a campaign's status starts from pending and
\* ends in verified or rejected.
C10_OneWay ==
    [][\A id \in DOMAIN donation_requests :
         donation_requests'[id].status # donation_requests[id].status =>
            /\ donation_requests[id].status = "pending"
            /\ donation_requests'[id].status \in {"verified", "rejected"}]_vars

\* C10 as amended: a campaign is created pending, every change of its status
\* ends in verified or rejected, and it never returns to pending; the handlers
\* do not look at the status they replace.
C10_NeverBackToPending ==
    [][/\ \A id \in DOMAIN donation_requests :
            /\ id \in DOMAIN donation_requests'
            /\ donation_requests'[id].status # donation_requests[id].status
                 => donation_requests'[id].status \in {"verified", "rejected"}
       /\ \A id \in DOMAIN donation_requests' \ DOMAIN donation_requests :
            donation_requests'[id].status = "pending"]_vars

C10_Witness ==
    /\ last.op = "reject_request" /\ last.status = HTTP_200 /\ last.writes = 1
    /\ donation_requests[last.args.request_id].status = "rejected"

\* C11: the donation log is append-only: whatever handler of whatever
\* component runs, every donation record of the store is still there after
\* the call with all its fields as they were, so the set of donation records
\* only grows.
C11_AppendOnly ==
    [][\A d \in DOMAIN donations :
         d \in DOMAIN donations' /\ donations'[d] = donations[d]]_vars

C11_Witness ==
    /\ last.op = "delete_user_account" /\ last.writes = 1
    /\ Cardinality(DOMAIN donations) >= 2
    /\ \E d \in DOMAIN donations : donations[d].donor_uid = last.args.uid
    /\ \E d, e \in DOMAIN donations :
         donations[d].amount # donations[e].amount

\* C12: each create_donation call that succeeds adds exactly one donation
\* record and changes no other; the record's request_id, donor_uid, amount
\* and payment_method are the call's arguments, its request_title is the title
\* the campaign had when the call read it, and the record is the response.
C12_OneRecordPerDonation ==
    [][(last'.op = "create_donation" /\ last'.status = HTTP_200) =>
        LET a == last'.args
            added == DOMAIN donations' \ DOMAIN donations
        IN  /\ added = {last'.body.id}
            /\ \A d \in DOMAIN donations : donations'[d] = donations[d]
            /\ donations'[last'.body.id] = last'.body
            /\ last'.body.request_id = a.request_id
            /\ last'.body.donor_uid = a.donor_uid
            /\ last'.body.amount = a.amount
            /\ last'.body.payment_method = a.payment_method
            /\ last'.body.request_title =
                  donation_requests[a.request_id].title]_vars

C12_Witness ==
    /\ last.op = "create_donation" /\ last.status = HTTP_200
    /\ donations[last.body.id].request_title
          = donation_requests[last.args.request_id].title
    /\ \E d \in DOMAIN donations :
         /\ donations[d].request_title # last.body.request_title
         /\ donations[d].donor_uid # last.body.donor_uid

\* C13: a campaign's collected_amount starts at 0, no create_donation call
\* the handler accepts decreases it, and it is at least 0 in every reachable
\* state.
C13_MonotonicNonNegative ==
    /\ [](\A id \in DOMAIN donation_requests :
            donation_requests[id].collected_amount >= 0)
    /\ [][/\ \A id \in DOMAIN donation_requests :
               donation_requests'[id].collected_amount
                  >= donation_requests[id].collected_amount
           /\ \A new \in DOMAIN donation_requests' \ DOMAIN donation_requests :
               donation_requests'[new].collected_amount = 0]_vars

\* the create_donation calls on a campaign that are at one of the positions
CallsAt(request_id, positions) ==
    {c \in DOMAIN calls : /\ calls[c].op = "create_donation"
                          /\ calls[c].pc \in positions
                          /\ calls[c].args.request_id = request_id}

RECURSIVE SumCallAmounts(_)
SumCallAmounts(cs) ==
    IF cs = {} THEN 0
    ELSE LET c == CHOOSE x \in cs : TRUE
         IN  calls[c].args.amount + SumCallAmounts(cs \ {c})

\* C14: when create_donation calls on the same campaign interleave between
\* their read, insert and increment, no increment is lost: in every state a
\* campaign's collected_amount is its value at creation (0) plus the amounts
\* of the calls on it that have returned, so once all have returned it is
\* the prior value plus the sum of all their amounts; and every call that has
\* inserted has its own donation record, one record per call.
C14_NoLostIncrement ==
    /\ \A id \in DOMAIN donation_requests :
         donation_requests[id].collected_amount
            = SumCallAmounts(CallsAt(id, {"returned"}))
    /\ \A id \in DOMAIN donation_requests :
         LET inserted == CallsAt(id, {"update", "returned"})
         IN  /\ \A c \in inserted :
                  LET d == calls[c].local.new_donation
                  IN  /\ d.id \in DOMAIN donations /\ donations[d.id] = d
                      /\ d.request_id = id /\ d.amount = calls[c].args.amount
             /\ \A c, e \in inserted :
                  c # e => calls[c].local.new_donation.id
                              # calls[e].local.new_donation.id
             /\ Cardinality(DonationsOf(id)) = Cardinality(inserted)

C14_Witness ==
    /\ Len(calls) >= 2
    /\ \A c \in DOMAIN calls : calls[c].pc = "returned"
    /\ \E c, e \in DOMAIN calls :
         /\ c # e
         /\ calls[c].args.request_id = calls[e].args.request_id
         /\ calls[c].local.request_data.collected_amount = 0
         /\ calls[e].local.request_data.collected_amount = 0
         /\ calls[c].args.amount = 2 /\ calls[e].args.amount = 2
         /\ donation_requests[calls[c].args.request_id].collected_amount
               = 2 * Len(calls)

Activates(l) ==
    /\ l.op = "update_sponsor_status"
    /\ "is_active_theme" \in DOMAIN l.args.update_data
    /\ l.args.update_data.is_active_theme = TRUE

\* C15: when sponsor S1 is the only one with is_active_theme true and an
\* admin's update sets is_active_theme true on another existing sponsor S2
\* with no store failure, then after the call S1's flag is false, S2's is
\* true, nothing else of S1 changed, and get_active_sponsor can only return
\* S2's document.
C15_ActivationSwitches ==
    [][\A s1, s2 \in DOMAIN sponsors :
         (/\ active_sponsors(sponsors) = {s1} /\ s2 # s1
          /\ Activates(last') /\ last'.args.sponsor_id = s2
          /\ IsAdminUser(users, last'.args.admin_uid)
          /\ ~last'.warned) =>
            /\ last'.status = HTTP_200
            /\ sponsors'[s1] = [sponsors[s1] EXCEPT !.is_active_theme = FALSE]
            /\ sponsors'[s2].is_active_theme
            /\ last'.body = sponsors'[s2]
            /\ get_active_sponsor' = {{s2}}]_vars

C15_Witness ==
    /\ Activates(last) /\ last.status = HTTP_200 /\ ~last.warned
    /\ last.writes = 2
    /\ "status" \in DOMAIN last.args.update_data
    /\ get_active_sponsor = {{last.args.sponsor_id}}
    /\ \E s1 \in DOMAIN sponsors :
         s1 # last.args.sponsor_id /\ ~sponsors[s1].is_active_theme

\* C16: update_sponsor_status and update_verification_status, called by an
\* admin on an existing document with a patch that sets no field, answer 200
\* with the document as it is and write nothing: every collection, so every
\* sponsor's is_active_theme and status, every request's status and every
\* user's is_verified, is as it was.
C16_EmptyPatchNoOp ==
    [][(/\ last'.op \in {"update_sponsor_status",
                          "update_verification_status"}
        /\ IsAdminUser(users, last'.args.admin_uid)
        /\ DOMAIN last'.args.update_data = {}) =>
          /\ (/\ last'.op = "update_sponsor_status"
               /\ last'.args.sponsor_id \in DOMAIN sponsors) =>
                 /\ last'.status = HTTP_200 /\ last'.writes = 0
                 /\ last'.body = sponsors[last'.args.sponsor_id]
                 /\ UNCHANGED db
          /\ (/\ last'.op = "update_verification_status"
               /\ last'.args.request_id \in DOMAIN verification_requests) =>
                 /\ last'.status = HTTP_200 /\ last'.writes = 0
                 /\ last'.body = verification_requests[last'.args.request_id]
                 /\ UNCHANGED db]_vars

C16_Witness ==
    /\ last.op = "update_verification_status"
    /\ DOMAIN last.args.update_data = {}
    /\ last.status = HTTP_200 /\ last.writes = 0
    /\ last.body = verification_requests[last.args.request_id]
    /\ last.body.status = "pending"
    /\ last.body.requester_uid \in DOMAIN users
    /\ ~users[last.body.requester_uid].is_verified
    /\ ActiveCount(sponsors) = 1

\* C17: in an admin's update of an existing sponsor that sets is_active_theme
\* true, a failure of the step that queries and clears the previously active
\* sponsor is not reported: the call answers 200 with the target's document,
\* the patch is applied to the target, which ends with is_active_theme true,
\* and no other sponsor is changed.
C17_DeactivationFailureSwallowed ==
    [][(/\ Activates(last') /\ last'.warned
        /\ IsAdminUser(users, last'.args.admin_uid)
        /\ last'.args.sponsor_id \in DOMAIN sponsors) =>
          LET target == last'.args.sponsor_id
              patch == last'.args.update_data
          IN  /\ last'.status = HTTP_200
              /\ DOMAIN sponsors' = DOMAIN sponsors
              /\ sponsors'[target].is_active_theme
              /\ sponsors'[target].status =
                    IF "status" \in DOMAIN patch THEN patch.status
                    ELSE sponsors[target].status
              /\ last'.body = sponsors'[target]
              /\ \A other \in DOMAIN sponsors \ {target} :
                    sponsors'[other] = sponsors[other]]_vars

C17_Witness ==
    /\ Activates(last) /\ last.warned /\ last.status = HTTP_200
    /\ sponsors[last.args.sponsor_id].is_active_theme
    /\ sponsors[last.args.sponsor_id].status = "approved"
    /\ ActiveCount(sponsors) = 2

\* the call c is at position from and this step takes it to position to
Steps(c, from, to) ==
    /\ c \in DOMAIN calls /\ calls[c].op = "update_sponsor_status"
    /\ calls[c].pc = from /\ calls'[c].pc = to

\* C18: sponsor activation is not isolated. Each update works on what it
\* read: its clearing step clears the sponsor its own query returned and no
\* other, and its activating write sets the target's flag and leaves every
\* other sponsor as it is, also one that another update has activated since
\* the query; and once every update has returned no step changes the flags.
\* So two updates on different sponsors that both query before either
\* writes leave two sponsors active after both have returned (the witness).
C18_NotIsolated ==
    [][/\ \A c \in DOMAIN calls :
            /\ Steps(c, "deactivate", "update") =>
                  \A id \in DOMAIN sponsors :
                    sponsors'[id].is_active_theme =
                      (/\ sponsors[id].is_active_theme
                       /\ id \notin calls[c].local.active_docs)
            /\ (Steps(c, "update", "returned")
                 /\ "is_active_theme" \in DOMAIN calls[c].args.update_data
                 /\ calls[c].args.update_data.is_active_theme = TRUE) =>
                  active_sponsors(sponsors') =
                     active_sponsors(sponsors) \cup {calls[c].args.sponsor_id}
       /\ (\A c \in DOMAIN calls : calls[c].pc \in {"returned", "raised"})
             => active_sponsors(sponsors') = active_sponsors(sponsors)]_vars

C18_Witness ==
    /\ \A c \in DOMAIN calls : calls[c].pc = "returned"
    /\ ActiveCount(sponsors) = 2
    /\ \E c, e \in DOMAIN calls :
         /\ calls[c].args.sponsor_id # calls[e].args.sponsor_id
         /\ DOMAIN calls[c].local = {"active_docs"}
         /\ DOMAIN calls[e].local = {"active_docs"}
         /\ sponsors[calls[c].args.sponsor_id].is_active_theme
         /\ sponsors[calls[e].args.sponsor_id].is_active_theme

PrimaryFailed(l) == ~l.args.GEMINI_API_KEY \/ l.args.primary.raised # "none"

SecondaryFailed(l) == ~l.args.HF_TOKEN \/ l.args.secondary.raised # "none"

\* C19: in generate_story_text, whenever the primary attempt fails in any
\* way (missing key, an error the provider reports, a transport error, a
\* response without text) the secondary provider is attempted; it is never
\* attempted when the primary succeeds; the call answers 503 exactly when
\* both attempts failed, and otherwise 200 with the cleaned text of the first
\* provider that succeeded.
C19_FallbackOnAnyFailure ==
    last.op = "generate_story_text" =>
      /\ PrimaryFailed(last) <=> "secondary" \in last.attempted
      /\ IF PrimaryFailed(last) /\ SecondaryFailed(last)
         THEN last.status = HTTP_503
         ELSE /\ last.status = HTTP_200
              /\ last.body.story =
                    clean_story_output(IF PrimaryFailed(last)
                                       THEN last.args.secondary.text
                                       ELSE last.args.primary.text)

FallbackTheme ==
    [primary_color_hex |-> "#1D4ED8", light_bg_hex |-> "#EFF6FF"]

\* no dominant colour can be extracted: the bytes are no image, or the
\* quantized image has fewer than five colours
NoDominantColors(image) == ~image.opens \/ Len(image.palette) < 15

\* C20 as claimed: generate_theme_from_logo, given bytes that are not empty,
\* always answers with two hex colours and never with an error; they are
\* the fixed pair when no dominant colour can be extracted, when the palette
\* request fails and when it returns fewer than five entries.
C20_AlwaysTwoColors ==
    (last.op = "generate_theme_from_logo" /\ last.args.file_bytes # "") =>
      /\ last.status = HTTP_200
      /\ DOMAIN last.body = {"primary_color_hex", "light_bg_hex"}
      /\ (\/ NoDominantColors(last.args.image)
          \/ last.args.response.raised
          \/ Len(last.args.response.result) < 5) =>
            last.body = FallbackTheme

\* C20 as amended: given bytes that are not empty from which dominant
\* colours are extracted, generate_theme_from_logo answers 200 with two hex
\* colours: the fixed pair when the palette request fails or returns fewer
\* than five entries, else the hex codes of the fourth and the first palette
\* entry. When no dominant colour can be extracted it answers with the error
\* 500 and no colours.
C20_TwoColorsOrExtractionError ==
    (last.op = "generate_theme_from_logo" /\ last.args.file_bytes # "") =>
      IF NoDominantColors(last.args.image)
      THEN last.status = HTTP_500 /\ last.body = NoBody
      ELSE /\ last.status = HTTP_200
           /\ IF \/ last.args.response.raised
                 \/ Len(last.args.response.result) < 5
              THEN last.body = FallbackTheme
              ELSE /\ last.body.primary_color_hex =
                         rgb_to_hex(last.args.response.result[4])
                   /\ last.body.light_bg_hex =
                         rgb_to_hex(last.args.response.result[1])

C20_Witness ==
    /\ last.op = "generate_theme_from_logo" /\ last.args.file_bytes # ""
    /\ ~NoDominantColors(last.args.image)
    /\ ~last.args.response.raised /\ Len(last.args.response.result) = 4
    /\ last.status = HTTP_200 /\ last.body = FallbackTheme

\* the users without their names
WithoutNames(coll) ==
    [u \in DOMAIN coll |->
        [f \in DOMAIN coll[u] \ {"full_name"} |-> coll[u][f]]]

\* what a read path returns for a campaign that hides its owner, computed
\* from the campaign and the users without their names
AnonymousView(nameless, req) ==
    Merge(req,
          [requester_name |-> "Anonymous Donor",
           requester_verified |->
               IF req.requester_uid \in DOMAIN nameless
               THEN nameless[req.requester_uid].is_verified ELSE FALSE])

\* C21: for a campaign whose show_name_publicly is false, create_request,
\* get_all_requests and get_request_details return the requester_name
\* "Anonymous Donor", and the whole entry they return is determined by the
\* campaign and the users without their full_name: two runs that differ only
\* in the owner's full_name get identical responses.
C21_AnonymousIndependentOfName ==
    [][/\ last'.op = "create_request" =>
            LET req == donation_requests'[last'.body.id]
            IN  ~req.show_name_publicly =>
                  last'.body = AnonymousView(WithoutNames(users), req)
       /\ (last'.op = "get_request_details" /\ last'.status = HTTP_200) =>
            LET req == donation_requests[last'.args.request_id]
            IN  ~req.show_name_publicly =>
                  last'.body = AnonymousView(WithoutNames(users), req)
       /\ last'.op = "get_all_requests" =>
            /\ DOMAIN last'.body = DOMAIN donation_requests
            /\ \A id \in DOMAIN donation_requests :
                 ~donation_requests[id].show_name_publicly =>
                    last'.body[id] = AnonymousView(WithoutNames(users),
                                                   donation_requests[id])]_vars

C21_Witness ==
    /\ last.op = "get_all_requests"
    /\ \E id, other \in DOMAIN last.body :
         /\ ~donation_requests[id].show_name_publicly
         /\ donation_requests[id].requester_uid \in DOMAIN users
         /\ users[donation_requests[id].requester_uid].full_name = "n2"
         /\ last.body[id].requester_name = "Anonymous Donor"
         /\ donation_requests[other].show_name_publicly
         /\ last.body[other].requester_name = "n2"

\* C22: a user's verification flag is never cleared: whatever handler runs
\* (register again, verify, campaign, donation, sponsor, verification request,
\* its rejection included), a user document that has is_verified true and is
\* still there after the call still has is_verified true.
C22_VerifiedStaysVerified ==
    [][\A u \in DOMAIN users \cap DOMAIN users' :
         users[u].is_verified => users'[u].is_verified]_vars

C22_Witness ==
    /\ IsVerificationUpdate(last, "rejected") /\ last.status = HTTP_200
    /\ verification_requests[last.args.request_id].status = "rejected"
    /\ verification_requests[last.args.request_id].requester_uid
          \in DOMAIN users
    /\ users[verification_requests[last.args.request_id].requester_uid]
          .is_verified

\* C23: create_donation sets the donation before it increments the campaign,
\* so with positive amounts the ledger drifts low, never high: in every
\* reachable state, also between the two writes of a call and after a call
\* failed between them, a campaign's collected_amount is at most its value at
\* creation (0) plus the sum of the amounts of its donation records, and no
\* step increments a campaign whose donation is not stored.
C23_NeverDriftsHigh ==
    /\ [](\A id \in DOMAIN donation_requests :
            donation_requests[id].collected_amount
               <= SumAmounts(DonationsOf(id)))
    /\ [][\A id \in DOMAIN donation_requests :
            donation_requests'[id].collected_amount
               # donation_requests[id].collected_amount =>
                 \E d \in DonationsOf(id) :
                    donation_requests'[id].collected_amount =
                       donation_requests[id].collected_amount
                          + donations[d].amount]_vars

C23_Witness ==
    /\ \E c \in DOMAIN calls :
         /\ calls[c].pc = "raised"
         /\ "new_donation" \in DOMAIN calls[c].local
         /\ calls[c].local.new_donation.id \in DOMAIN donations
         /\ donation_requests[calls[c].args.request_id].collected_amount
               < SumAmounts(DonationsOf(calls[c].args.request_id))
    /\ \E c \in DOMAIN calls : calls[c].pc = "returned"

\* the approving updates that are at one of the positions
ApprovalsAt(positions) ==
    {c \in DOMAIN calls : /\ calls[c].op = "update_verification_status"
                          /\ calls[c].pc \in positions
                          /\ "status" \in DOMAIN calls[c].args.update_data
                          /\ calls[c].args.update_data.status = "approved"}

C25_TargetOnlyActive ==
    [][(/\ Activates(last') /\ ~last'.warned
        /\ IsAdminUser(users, last'.args.admin_uid)
        /\ last'.args.sponsor_id \in DOMAIN sponsors) =>
          active_sponsors(sponsors') = {last'.args.sponsor_id}]_vars

\* C26: starting from a store with no user of role admin, no sequence of
\* calls makes one: no user document with role admin ever exists, and
\* register_user_profile never creates one.
C26_NoAdminEver == \A u \in DOMAIN users : users[u].role # "admin"

\* C27: get_user_donations(uid) returns every stored donation at most once,
\* for every uid, the placeholder "web_donor_test" included: the list holds
\* the donations of uid and those of the placeholder and repeats no record.
C27_NoRecordRepeated ==
    last.op = "get_user_donations" =>
      /\ \A i, j \in DOMAIN last.body : i # j => last.body[i] # last.body[j]
      /\ {last.body[i] : i \in DOMAIN last.body} =
            {donations[d] : d \in {x \in DOMAIN donations :
                                     donations[x].donor_uid
                                        \in {last.args.uid, TEST_DONOR_UID}}}

\* C28: when register_user_profile calls for one uid with different profile
\* fields run concurrently, the document written first is never overwritten
\* by the other call, and once all have returned each has returned the
\* document that is stored.
C28_FirstWriteWins ==
    /\ []((\A c \in DOMAIN calls : calls[c].pc = "returned") =>
            \A c \in DOMAIN calls :
               /\ calls[c].args.uid \in DOMAIN users
               /\ calls[c].local.returned = users[calls[c].args.uid])
    /\ [][\A u \in DOMAIN users : users'[u] = users[u]]_vars

====
